---- MODULE Spec2Model ----
(***************************************************************************)
(* Model of lib/enrich.py: the template-catalog enrichment pipeline.       *)
(*                                                                         *)
(* Python strings are sequences of one-character strings, so that the      *)
(* substring tests, splits, regular-expression scans and rstrip calls of   *)
(* the source are computed character by character.  Python values whose    *)
(* type varies at run time (JSON fields, None) are tagged records          *)
(* [t |-> type, v |-> value]; dicts are functions from key strings.        *)
(***************************************************************************)
EXTENDS Integers, Sequences, FiniteSets, TLC

VARIABLES pc, file, templates, i, enriched_count, enriched_at, writes,
          net_log, ret, loaded, gained, raised_at, arg, ret1, ret2

vars == <<pc, file, templates, i, enriched_count, enriched_at, writes,
          net_log, ret, loaded, gained, raised_at, arg, ret1, ret2>>

\* ------------------------------------------------------------------ bounds

\* Longest catalog the driver specification loads.
MaxTemplates == 2
\* Longest image reference generated over ImageAlphabet.
MaxImageLen == 2

\* ---------------------------------------------------------- Python values

None == [t |-> "None"]
PyStr(s) == [t |-> "str", v |-> s]
PyInt(n) == [t |-> "int", v |-> n]
PyBool(b) == [t |-> "bool", v |-> b]
PyDict(f) == [t |-> "dict", v |-> f]
PyList(l) == [t |-> "list", v |-> l]
EmptyDict == << >>

\* Python truth value of a tagged value (`if x`, `not x`).
Truthy(x) ==
    CASE x.t = "None" -> FALSE
      [] x.t = "str" -> x.v # << >>
      [] x.t = "int" -> x.v # 0
      [] x.t = "bool" -> x.v
      [] x.t = "dict" -> DOMAIN x.v # {}
      [] x.t = "list" -> x.v # << >>

\* dict.get(key, default) on a dict given as a function.
Get(d, k, default) == IF k \in DOMAIN d THEN d[k] ELSE default

\* d[key] = value
SetKey(d, k, val) == [x \in DOMAIN d \cup {k} |-> IF x = k THEN val ELSE d[x]]

\* --------------------------------------------------------- string helpers

\* s[p:].startswith(lit), 1-based
StartsWithAt(s, p, lit) ==
    /\ p >= 1
    /\ p + Len(lit) - 1 <= Len(s)
    /\ SubSeq(s, p, p + Len(lit) - 1) = lit

\* `lit in s` for a non-empty literal
Contains(s, lit) == \E p \in 1..Len(s) : StartsWithAt(s, p, lit)

HasChar(s, c) == \E p \in 1..Len(s) : s[p] = c

\* Index of the first / last occurrence of character c in s (0 when absent).
FirstIndex(s, c) ==
    IF HasChar(s, c) THEN CHOOSE p \in 1..Len(s) : s[p] = c /\ \A q \in 1..(p-1) : s[q] # c
    ELSE 0

LastIndex(s, c) ==
    IF HasChar(s, c) THEN CHOOSE p \in 1..Len(s) : s[p] = c /\ \A q \in (p+1)..Len(s) : s[q] # c
    ELSE 0

\* Last index e >= p-1 such that s[p..e] holds no character of excl: the end of
\* the greedy match of a negated character class [^...]+ started at p.
RunEnd(s, p, excl) ==
    CHOOSE e \in (p-1)..Len(s) :
        /\ \A q \in p..e : s[q] \notin excl
        /\ (e < Len(s) => s[e+1] \in excl)

\* str.rstrip(chars): drop trailing characters that belong to the set chars.
rstrip(s, chars) ==
    LET keep == CHOOSE e \in 0..Len(s) :
                    /\ \A q \in (e+1)..Len(s) : s[q] \in chars
                    /\ (e >= 1 => s[e] \notin chars)
    IN SubSeq(s, 1, keep)

\* Decimal digits of a natural number (str(n)).
Digit(d) == <<"0","1","2","3","4","5","6","7","8","9">>[d + 1]

RECURSIVE IntToStr(_)
IntToStr(n) == IF n < 10 THEN <<Digit(n)>> ELSE IntToStr(n \div 10) \o <<Digit(n % 10)>>

\* ------------------------------------------------------- string literals

S_ghcr == <<"g","h","c","r",".","i","o">>
S_gcr == <<"g","c","r",".","i","o">>
S_quay == <<"q","u","a","y",".","i","o">>
S_mcr == <<"m","c","r",".","m","i","c","r","o","s","o","f","t",".","c","o","m">>
S_lscr == <<"l","s","c","r",".","i","o">>
S_latest == <<"l","a","t","e","s","t">>
S_library == <<"l","i","b","r","a","r","y">>
S_linuxserver == <<"l","i","n","u","x","s","e","r","v","e","r">>
S_docker_dash == <<"d","o","c","k","e","r","-">>
S_github_com == <<"g","i","t","h","u","b",".","c","o","m","/">>
S_github_io == <<".","g","i","t","h","u","b",".","i","o","/">>
S_http == <<"h","t","t","p">>
S_colon_slashes == <<":","/","/">>
S_hub_official == <<"h","t","t","p","s",":","/","/","h","u","b",".","d","o","c","k","e","r",".","c","o","m","/","_","/">>
S_hub_repo == <<"h","t","t","p","s",":","/","/","h","u","b",".","d","o","c","k","e","r",".","c","o","m","/","r","/">>

\* --------------------------------------------------- parse_image_name

\* line 63: the image names one of the known non-Docker-Hub registries
IsForeignRegistry(image) ==
    \E r \in {S_ghcr, S_gcr, S_quay, S_mcr, S_lscr} : Contains(image, r)

\* A parser that forgets the generic registry-prefix test of line 67.
HasRegistryPrefix_never(image) == FALSE

\* line 67: "/" in image and "." in image.split("/")[0]
HasRegistryPrefix(image) ==
    /\ HasChar(image, "/")
    /\ HasChar(SubSeq(image, 1, FirstIndex(image, "/") - 1), ".")

\* parse_image_name(image): <<namespace, name, tag>>, each PyStr(..) or None.
parse_image_name(image) ==
    IF IsForeignRegistry(image) THEN <<None, None, None>>
    ELSE IF HasRegistryPrefix(image) THEN <<None, None, None>>
    ELSE
      LET c == LastIndex(image, ":")
          img == IF c > 0 THEN SubSeq(image, 1, c - 1) ELSE image
          tag == IF c > 0 THEN SubSeq(image, c + 1, Len(image)) ELSE S_latest
          s == FirstIndex(img, "/")
      IN IF s > 0
         THEN <<PyStr(SubSeq(img, 1, s - 1)), PyStr(SubSeq(img, s + 1, Len(img))), PyStr(tag)>>
         ELSE <<PyStr(S_library), PyStr(img), PyStr(tag)>>

\* ------------------------------------------------------- make_request

\* What the HTTP exchange ends in.  kind is one of
\*   "http404"  HTTPError with code 404          "http5xx"  any other HTTPError
\*   "urlerror" URLError                          "timeout"  TimeoutError
\*   "badjson"  the body is not JSON (JSONDecodeError)
\*   "badutf8"  the body is not UTF-8 (UnicodeDecodeError from .decode())
\*   "ok"       a 2xx response whose body parses to the JSON value `body`
Response(kind, body) == [kind |-> kind, body |-> body]

\* make_request(url, headers): [raised, value].  The except clauses catch
\* HTTPError, URLError, TimeoutError and JSONDecodeError and nothing else.
make_request(resp) ==
    CASE resp.kind = "ok" -> [raised |-> FALSE, value |-> resp.body]
      [] resp.kind = "http404" -> [raised |-> FALSE, value |-> None]
      [] resp.kind = "http5xx" -> [raised |-> FALSE, value |-> None]
      [] resp.kind \in {"urlerror", "timeout"} -> [raised |-> FALSE, value |-> None]
      [] resp.kind = "badjson" -> [raised |-> FALSE, value |-> None]
      [] resp.kind = "badutf8" -> [raised |-> TRUE, value |-> None]

\* --------------------------------------------------- fetch_dockerhub_info

\* line 99: the browse URL
hub_url(namespace, name) ==
    IF namespace # S_library THEN S_hub_repo \o namespace \o <<"/">> \o name
    ELSE S_hub_official \o name

\* fetch_dockerhub_info(namespace, name): [raised, value]; value is None or
\* PyDict(Registry Stats).  data.get on a JSON value that is not an object
\* raises AttributeError.
fetch_dockerhub_info(namespace, name, resp) ==
    LET r == make_request(resp)
        data == r.value
    IN IF r.raised THEN [raised |-> TRUE, value |-> None]
       ELSE IF ~Truthy(data) THEN [raised |-> FALSE, value |-> None]
       ELSE IF data.t # "dict" THEN [raised |-> TRUE, value |-> None]
       ELSE [raised |-> FALSE,
             value |-> PyDict([description |-> Get(data.v, "description", PyStr(<< >>)),
                             star_count |-> Get(data.v, "star_count", PyInt(0)),
                             pull_count |-> Get(data.v, "pull_count", PyInt(0)),
                             last_updated |-> Get(data.v, "last_updated", PyStr(<< >>)),
                             is_official |-> PyBool(namespace = S_library),
                             hub_url |-> PyStr(hub_url(namespace, name))])]

\* ------------------------------------------------- extract_github_repo

\* Characters the regular expressions' \s matches.
Whitespace == {" ", "\t", "\n", "\r", "\f"}

\* The class [^/\s]+ of the owner group and [^/\s\)\"]+ of the repo groups.
OwnerStop == {"/"} \cup Whitespace
RepoStop == {"/", ")", "\""} \cup Whitespace

PyTuple(a, b) == [t |-> "tuple", v |-> <<a, b>>]

\* r"github\.com/([^/\s]+)/([^/\s\)\"]+)" matched at position p: the owner
\* group is the whole run up to the next "/", the repo group the whole run
\* after it (both greedy, both non-empty).
Pattern1At(s, p) ==
    LET o == p + Len(S_github_com)
        oe == RunEnd(s, o, OwnerStop)
    IN /\ StartsWithAt(s, p, S_github_com)
       /\ oe >= o
       /\ oe < Len(s)
       /\ s[oe + 1] = "/"
       /\ RunEnd(s, oe + 2, RepoStop) >= oe + 2

Pattern1Groups(s, p) ==
    LET o == p + Len(S_github_com)
        oe == RunEnd(s, o, OwnerStop)
    IN <<SubSeq(s, o, oe), SubSeq(s, oe + 2, RunEnd(s, oe + 2, RepoStop))>>

\* r"https?://([^/]+)\.github\.io/([^/\s\)\"]+)" matched at position p: the
\* owner group [^/]+ backtracks from the first "/" after the scheme to leave
\* ".github.io" in front of it.
Pattern2Owner(s, p) ==
    LET a == IF StartsWithAt(s, p + Len(S_http), <<"s">>) THEN p + Len(S_http) + 1
             ELSE p + Len(S_http)
    IN a + Len(S_colon_slashes)

Pattern2At(s, p) ==
    LET o == Pattern2Owner(s, p)
        e == RunEnd(s, o, {"/"})
        dot == e - (Len(S_github_io) - 1) + 1
    IN /\ StartsWithAt(s, p, S_http)
       /\ StartsWithAt(s, o - Len(S_colon_slashes), S_colon_slashes)
       /\ e < Len(s)
       /\ dot > o
       /\ StartsWithAt(s, dot, S_github_io)
       /\ RunEnd(s, e + 2, RepoStop) >= e + 2

Pattern2Groups(s, p) ==
    LET o == Pattern2Owner(s, p)
        e == RunEnd(s, o, {"/"})
        dot == e - (Len(S_github_io) - 1) + 1
    IN <<SubSeq(s, o, dot - 1), SubSeq(s, e + 2, RunEnd(s, e + 2, RepoStop))>>

\* re.search: the leftmost position at which the pattern matches (0: no match).
Search1(s) ==
    IF \E p \in 1..Len(s) : Pattern1At(s, p)
    THEN CHOOSE p \in 1..Len(s) : Pattern1At(s, p) /\ \A q \in 1..(p-1) : ~Pattern1At(s, q)
    ELSE 0

Search2(s) ==
    IF \E p \in 1..Len(s) : Pattern2At(s, p)
    THEN CHOOSE p \in 1..Len(s) : Pattern2At(s, p) /\ \A q \in 1..(p-1) : ~Pattern2At(s, q)
    ELSE 0

\* line 118: repo.rstrip(".git").rstrip("/")
StripRepo(repo) == rstrip(rstrip(repo, {".", "g", "i", "t"}), {"/"})

\* A resolver that applies the naming convention to every publisher.
LinuxserverFallback_any(image) ==
    LET p == parse_image_name(image)
    IN IF p[1] # None THEN PyTuple(S_linuxserver, S_docker_dash \o p[2].v) ELSE None

\* lines 121-126: linuxserver images live at linuxserver/docker-{name}
LinuxserverFallback(image) ==
    LET p == parse_image_name(image)
    IN IF p[1] = PyStr(S_linuxserver)
       THEN PyTuple(S_linuxserver, S_docker_dash \o p[2].v)
       ELSE None

\* extract_github_repo(dockerhub_data, image): [raised, value]; value is None
\* or PyTuple(owner, repo).  re.search on a description that is not a string
\* (a JSON null, a number) raises TypeError.
extract_github_repo(dockerhub_data, image) ==
    LET desc == IF Truthy(dockerhub_data)
                THEN Get(dockerhub_data.v, "description", PyStr(<< >>))
                ELSE PyStr(<< >>)
    IN IF desc.t # "str" THEN [raised |-> TRUE, value |-> None]
       ELSE IF Search1(desc.v) > 0
       THEN LET g == Pattern1Groups(desc.v, Search1(desc.v))
            IN [raised |-> FALSE, value |-> PyTuple(g[1], StripRepo(g[2]))]
       ELSE IF Search2(desc.v) > 0
       THEN LET g == Pattern2Groups(desc.v, Search2(desc.v))
            IN [raised |-> FALSE, value |-> PyTuple(g[1], StripRepo(g[2]))]
       ELSE [raised |-> FALSE, value |-> LinuxserverFallback(image)]

\* ----------------------------------------------------- fetch_github_info

\* line 144: data.get("license", {}).get("spdx_id") if data.get("license") else None
\* [raised, value]: .get on a licence that is not an object raises.
github_license(data) ==
    LET lic == Get(data, "license", PyDict(EmptyDict))
    IN IF ~Truthy(Get(data, "license", None)) THEN [raised |-> FALSE, value |-> None]
       ELSE IF lic.t # "dict" THEN [raised |-> TRUE, value |-> None]
       ELSE [raised |-> FALSE, value |-> Get(lic.v, "spdx_id", None)]

\* fetch_github_info(owner, repo): [raised, value]; value is None or
\* PyDict(Source-Repo Stats).
fetch_github_info(owner, repo, resp) ==
    LET r == make_request(resp)
        data == r.value
    IN IF r.raised THEN [raised |-> TRUE, value |-> None]
       ELSE IF ~Truthy(data) THEN [raised |-> FALSE, value |-> None]
       ELSE IF data.t # "dict" THEN [raised |-> TRUE, value |-> None]
       ELSE IF github_license(data.v).raised THEN [raised |-> TRUE, value |-> None]
       ELSE [raised |-> FALSE,
             value |-> PyDict([github_url |-> Get(data.v, "html_url", PyStr(<< >>)),
                               github_stars |-> Get(data.v, "stargazers_count", PyInt(0)),
                               github_forks |-> Get(data.v, "forks_count", PyInt(0)),
                               github_issues |-> Get(data.v, "open_issues_count", PyInt(0)),
                               github_updated |-> Get(data.v, "updated_at", PyStr(<< >>)),
                               github_description |-> Get(data.v, "description", PyStr(<< >>)),
                               github_license |-> github_license(data.v).value])]

\* ----------------------------------------------------------- format_number

\* n / unit rendered with one decimal, "{:.1f}": round to the nearest tenth,
\* ties to even.  (The source divides in binary floating point; the pull
\* counts drawn below are not ties, where the two could differ.)
OneDecimal(n, unit) ==
    LET q == (n * 10) \div unit
        r == (n * 10) % unit
        tenths == IF 2 * r > unit \/ (2 * r = unit /\ q % 2 = 1) THEN q + 1 ELSE q
    IN IntToStr(tenths \div 10) \o <<".">> \o <<Digit(tenths % 10)>>

\* format_number(n): [raised, value]; comparing None with an int raises TypeError.
format_number(n) ==
    IF n.t # "int" THEN [raised |-> TRUE, value |-> None]
    ELSE IF n.v >= 1000000 THEN [raised |-> FALSE, value |-> PyStr(OneDecimal(n.v, 1000000) \o <<"M">>)]
    ELSE IF n.v >= 1000 THEN [raised |-> FALSE, value |-> PyStr(OneDecimal(n.v, 1000) \o <<"K">>)]
    ELSE [raised |-> FALSE, value |-> PyStr(IntToStr(n.v))]

\* --------------------------------------------------------- enrich_template

\* Entries of the network log: one per network call and one per time.sleep.
DockerCall(namespace, name) == [op |-> "dockerhub", a |-> namespace, b |-> name]
GithubCall(owner, repo) == [op |-> "github", a |-> owner, b |-> repo]
Sleep == [op |-> "sleep", a |-> << >>, b |-> << >>]

\* lines 176-183: metadata["docker"]; [raised, value]
DockerMetadata(dockerhub) ==
    LET f == format_number(dockerhub.v["pull_count"])
    IN IF f.raised THEN [raised |-> TRUE, value |-> None]
       ELSE [raised |-> FALSE,
             value |-> PyDict([pulls |-> dockerhub.v["pull_count"],
                               pulls_formatted |-> f.value,
                               stars |-> dockerhub.v["star_count"],
                               hub_url |-> dockerhub.v["hub_url"],
                               last_updated |-> dockerhub.v["last_updated"],
                               is_official |-> dockerhub.v["is_official"]])]

\* A backfill that appends the registry description to the entry's own.
BackfillDescription_append(template, dockerhub) ==
    IF Truthy(dockerhub.v["description"]) /\ dockerhub.v["description"].t = "str"
       /\ Get(template, "description", PyStr(<< >>)).t = "str"
    THEN SetKey(template, "description",
                PyStr(Get(template, "description", PyStr(<< >>)).v \o dockerhub.v["description"].v))
    ELSE template

\* lines 185-187: use the registry description if the entry has none
BackfillDescription(template, dockerhub) ==
    IF Truthy(dockerhub.v["description"]) /\ ~Truthy(Get(template, "description", None))
    THEN SetKey(template, "description", dockerhub.v["description"])
    ELSE template

\* lines 197-204: metadata["github"]
GithubMetadata(github) ==
    PyDict([url |-> github.v["github_url"],
            stars |-> github.v["github_stars"],
            forks |-> github.v["github_forks"],
            issues |-> github.v["github_issues"],
            updated |-> github.v["github_updated"],
            license |-> github.v["github_license"]])

\* What one call leaves behind: the entry as the call left it (the dict is
\* mutated in place, so it carries every assignment made before an exception),
\* whether an exception left the call, the network calls and sleeps made, in
\* order, and whether line 207 assigned template["metadata"].
Outcome(template, raised, log, stored) ==
    [template |-> template, raised |-> raised, log |-> log, stored |-> stored]

\* lines 206-209
StoreMetadata(template, metadata, log) ==
    IF DOMAIN metadata # {}
    THEN Outcome(SetKey(template, "metadata", PyDict(metadata)), FALSE, log, TRUE)
    ELSE Outcome(template, FALSE, log, FALSE)

\* An assignment `y = x` followed by the statements F that read y: x is
\* computed once, as the interpreter does, and F continues with its value.
Then(x, F(_)) == CHOOSE r \in {F(y) : y \in {x}} : TRUE

\* lines 191-204, with the resolver's answer in hand
EnrichGithubFetch(template, metadata, github_repo, gresp, log) ==
    IF github_repo.raised THEN Outcome(template, TRUE, log, FALSE)
    ELSE IF github_repo.value = None THEN StoreMetadata(template, metadata, log)
    ELSE
      Then(fetch_github_info(github_repo.value.v[1], github_repo.value.v[2], gresp),
           LAMBDA github :
             LET log1 == Append(log, GithubCall(github_repo.value.v[1], github_repo.value.v[2]))
             IN IF github.raised THEN Outcome(template, TRUE, log1, FALSE)
                ELSE IF Truthy(github.value)
                THEN StoreMetadata(template,
                                   SetKey(metadata, "github", GithubMetadata(github.value)),
                                   Append(log1, Sleep))
                ELSE StoreMetadata(template, metadata, Append(log1, Sleep)))

\* lines 189-204, entered with the entry and the metadata dict as lines
\* 173-187 left them
EnrichGithub(template, metadata, dockerhub, image, gresp, log) ==
    Then(extract_github_repo(dockerhub, image),
         LAMBDA github_repo : EnrichGithubFetch(template, metadata, github_repo, gresp, log))

\* lines 171-187, with the registry's answer in hand: time.sleep is reached
\* only if the lookup returned
EnrichDockerMerge(template, image, namespace, name, dockerhub, gresp) ==
    LET log0 == <<DockerCall(namespace, name)>>
        log1 == Append(log0, Sleep)
    IN IF dockerhub.raised THEN Outcome(template, TRUE, log0, FALSE)
       ELSE IF ~Truthy(dockerhub.value)
       THEN EnrichGithub(template, EmptyDict, dockerhub.value, image, gresp, log1)
       ELSE Then(DockerMetadata(dockerhub.value),
                 LAMBDA docker :
                   IF docker.raised THEN Outcome(template, TRUE, log1, FALSE)
                   ELSE EnrichGithub(BackfillDescription(template, dockerhub.value),
                                     [docker |-> docker.value],
                                     dockerhub.value, image, gresp, log1))

\* lines 167-187, entered with a resolved namespace and name
EnrichDocker(template, image, namespace, name, dresp, gresp) ==
    Then(fetch_dockerhub_info(namespace, name, dresp),
         LAMBDA dockerhub :
           EnrichDockerMerge(template, image, namespace, name, dockerhub, gresp))

\* enrich_template(template) under the two responses the network would give.
\* An image that is not a string makes parse_image_name raise TypeError.
enrich_template(template, dresp, gresp) ==
    LET image == Get(template, "image", PyStr(<< >>))
    IN IF ~Truthy(image) THEN Outcome(template, FALSE, << >>, FALSE)
       ELSE IF image.t # "str" THEN Outcome(template, TRUE, << >>, FALSE)
       ELSE Then(parse_image_name(image.v),
                 LAMBDA p :
                   IF ~Truthy(p[1]) THEN Outcome(template, FALSE, << >>, FALSE)
                   ELSE EnrichDocker(template, image.v, p[1].v, p[2].v, dresp, gresp))

\* ------------------------------------------------------------ input sets

S_nginx == <<"n","g","i","n","x">>
S_heimdall == <<"h","e","i","m","d","a","l","l">>
S_linuxserver_heimdall == S_linuxserver \o <<"/">> \o S_heimdall
S_foo_bar == <<"f","o","o","/","b","a","r">>
S_ghcr_image == <<"g","h","c","r",".","i","o","/","o","/","i",":","v","1">>
S_dotted_image == <<"m","y",".","r","e","g","/","o","/","i">>
S_lscr_image == S_lscr \o <<"/">> \o S_linuxserver \o <<"/","x">>
S_redis_tag == <<"r","e","d","i","s",":","7">>
S_url_o_r == S_github_com \o <<"o","/","r">>

\* All strings over alphabet of length at most n.
RECURSIVE StringsUpTo(_, _)
StringsUpTo(alphabet, n) ==
    IF n = 0 THEN {<< >>}
    ELSE LET shorter == StringsUpTo(alphabet, n - 1)
         IN shorter \cup {Append(s, c) : s \in shorter, c \in alphabet}

ImageAlphabet == {"a", ".", "/", ":"}

\* Image references: the forms of the docstring of parse_image_name, and
\* every string over the separators up to MaxImageLen.
Images ==
    {S_nginx, S_linuxserver_heimdall, S_foo_bar, S_ghcr_image, S_dotted_image,
     S_lscr_image, S_redis_tag}
    \cup StringsUpTo(ImageAlphabet, MaxImageLen)

\* The metadata sub-mapping an earlier run left on an entry.
OldMetadata ==
    PyDict([docker |-> PyDict([pulls |-> PyInt(7), pulls_formatted |-> PyStr(<<"7">>),
                               stars |-> PyInt(1), hub_url |-> PyStr(<<"u">>),
                               last_updated |-> PyStr(<<"y">>), is_official |-> PyBool(FALSE)]),
            github |-> PyDict([url |-> PyStr(<<"u">>), stars |-> PyInt(1), forks |-> PyInt(0),
                               issues |-> PyInt(0), updated |-> PyStr(<<"y">>),
                               license |-> None])])

\* Optional fields of a template entry: absent, or one of the given values.
WithOptional(base, key, values) ==
    {base} \cup {SetKey(d, key, val) : d \in {base}, val \in values}

\* Template entries: a title, and optionally image, description, metadata.
TemplatesOver(images) ==
    LET t0 == {[title |-> PyStr(<<"T">>)]}
        t1 == UNION {WithOptional(d, "image", {PyStr(im) : im \in images}) : d \in t0}
        t2 == UNION {WithOptional(d, "description", {PyStr(<< >>), PyStr(<<"x">>)}) : d \in t1}
    IN UNION {WithOptional(d, "metadata", {OldMetadata}) : d \in t2}

\* Bodies of 2xx registry answers.
DockerFull(desc, pulls) ==
    PyDict([description |-> desc, star_count |-> PyInt(3), pull_count |-> pulls,
            last_updated |-> PyStr(<<"t">>)])

DockerBodies ==
    {DockerFull(PyStr(S_url_o_r), PyInt(1500)),
     DockerFull(PyStr(<<"d">>), PyInt(2300000)),
     DockerFull(None, PyInt(500)),
     DockerFull(PyStr(<<"d">>), None),
     PyDict([star_count |-> PyInt(3)]),
     PyDict(EmptyDict),
     PyList(<<PyInt(1)>>)}

ErrorKinds == {"http404", "http5xx", "urlerror", "timeout", "badjson", "badutf8"}

DockerResponses ==
    {Response(k, None) : k \in ErrorKinds \ {"urlerror"}}
    \cup {Response("ok", b) : b \in DockerBodies}

\* Bodies of 2xx source-hosting answers.
GithubBodies ==
    {PyDict([html_url |-> PyStr(<<"h">>), stargazers_count |-> PyInt(9),
             license |-> PyDict([spdx_id |-> PyStr(<<"M","I","T">>)])]),
     PyDict([html_url |-> PyStr(<<"h">>), license |-> PyStr(<<"M","I","T">>)])}

GithubResponses ==
    {Response(k, None) : k \in {"http404", "timeout", "badutf8"}}
    \cup {Response("ok", b) : b \in GithubBodies}

Idle == << >>

\* ------------------------------------------- one call of enrich_template
\* SpecEnrich: enrich_template applied to one entry, then applied again to
\* the entry it returned, the network answering the same both times.

InitEnrich ==
    /\ pc = "enrich0"
    /\ arg \in [template : TemplatesOver(Images), dresp : DockerResponses,
                gresp : GithubResponses]
    /\ ret1 = Idle /\ ret2 = Idle
    /\ file = Idle /\ templates = Idle /\ i = 0 /\ enriched_count = 0
    /\ enriched_at = Idle /\ writes = 0 /\ net_log = Idle /\ ret = Idle
    /\ loaded = Idle /\ gained = 0 /\ raised_at = {}

driver_vars == <<file, templates, i, enriched_count, enriched_at, writes, net_log,
                 ret, loaded, gained, raised_at>>

EnrichOnce ==
    /\ pc = "enrich0"
    /\ ret1' = enrich_template(arg.template, arg.dresp, arg.gresp)
    /\ pc' = "enrich1"
    /\ UNCHANGED <<arg, ret2, driver_vars>>

EnrichAgain ==
    /\ pc = "enrich1"
    /\ ret2' = enrich_template(ret1.template, arg.dresp, arg.gresp)
    /\ pc' = "enrich2"
    /\ UNCHANGED <<arg, ret1, driver_vars>>

NextEnrich == EnrichOnce \/ EnrichAgain

SpecEnrich == InitEnrich /\ [][NextEnrich]_vars

\* ------------------------------------------------------------------ main
\* Spec: one run of main over the catalog file.

\* Entries of the catalogs the driver loads.
DriverTemplates ==
    {[title |-> PyStr(<<"T">>), image |-> PyStr(S_nginx)],
     [title |-> PyStr(<<"T">>), image |-> PyStr(S_linuxserver_heimdall),
      description |-> PyStr(<<"x">>)],
     [title |-> PyStr(<<"T">>), image |-> PyStr(S_ghcr_image), metadata |-> OldMetadata],
     [title |-> PyStr(<<"T">>), image |-> PyStr(S_foo_bar), metadata |-> OldMetadata],
     [title |-> PyStr(<<"T">>)]}

\* Sequences over S of length at most n.
RECURSIVE SeqsUpTo(_, _)
SeqsUpTo(S, n) ==
    IF n = 0 THEN {<< >>}
    ELSE LET shorter == SeqsUpTo(S, n - 1)
         IN shorter \cup {Append(q, x) : q \in shorter, x \in S}

\* The catalog file: unreadable (missing, or not JSON), or a document with
\* its templates and the enriched_at stamp of an earlier run.
CatalogFiles ==
    {[valid |-> FALSE, templates |-> << >>, enriched_at |-> "none"]}
    \cup {[valid |-> TRUE, templates |-> ts, enriched_at |-> "earlier"] :
             ts \in SeqsUpTo(DriverTemplates, MaxTemplates)}

DriverDockerResponses ==
    {Response("http404", None), Response("badutf8", None),
     Response("ok", DockerFull(PyStr(S_url_o_r), PyInt(1500))),
     Response("ok", DockerFull(None, PyInt(500)))}

DriverGithubResponses ==
    {Response("http404", None), Response("badutf8", None)}
    \cup {Response("ok", b) : b \in GithubBodies}

Init ==
    /\ pc = "start"
    /\ file \in CatalogFiles
    /\ templates = << >>
    /\ loaded = << >>
    /\ i = 0
    /\ enriched_count = 0
    /\ enriched_at = "none"
    /\ writes = 0
    /\ net_log = << >>
    /\ ret = Idle
    /\ gained = 0
    /\ raised_at = {}
    /\ arg = Idle /\ ret1 = Idle /\ ret2 = Idle

\* lines 214-223: the catalog is read and parsed
Load ==
    /\ pc = "start"
    /\ file.valid
    /\ templates' = file.templates
    /\ loaded' = file.templates
    /\ enriched_at' = file.enriched_at
    /\ enriched_count' = 0
    /\ i' = 0
    /\ pc' = "loop"
    /\ UNCHANGED <<file, writes, net_log, ret, gained, raised_at, arg, ret1, ret2>>

\* lines 216-217: open or json.load raises, and nothing catches it
LoadFails ==
    /\ pc = "start"
    /\ ~file.valid
    /\ pc' = "aborted"
    /\ UNCHANGED <<file, templates, loaded, i, enriched_count, enriched_at, writes,
                   net_log, ret, gained, raised_at, arg, ret1, ret2>>

\* The log entries of one call, tagged with the entry's position.
Tagged(k, log) == [j \in 1..Len(log) |-> [entry |-> k, ev |-> log[j]]]

\* lines 225-230: the call of enrich_template for entry i+1.  The entry is
\* the dict held by the list, so what the call assigned is in the list
\* whether the call returns or raises.
CallEnrich ==
    /\ pc = "loop"
    /\ i < Len(templates)
    /\ \E dresp \in DriverDockerResponses, gresp \in DriverGithubResponses :
          ret' = enrich_template(templates[i + 1], dresp, gresp)
    /\ templates' = [templates EXCEPT ![i + 1] = ret'.template]
    /\ net_log' = net_log \o Tagged(i + 1, ret'.log)
    /\ gained' = IF ret'.stored THEN gained + 1 ELSE gained
    /\ pc' = "returned"
    /\ UNCHANGED <<file, loaded, i, enriched_count, enriched_at, writes, raised_at,
                   arg, ret1, ret2>>

\* lines 231-233: the call returned
Continue ==
    /\ pc = "returned"
    /\ ~ret.raised
    /\ IF "metadata" \in DOMAIN ret.template
       THEN /\ enriched_count' = enriched_count + 1
            /\ templates' = [templates EXCEPT ![i + 1] = ret.template]
       ELSE UNCHANGED <<enriched_count, templates>>
    /\ i' = i + 1
    /\ pc' = "loop"
    /\ UNCHANGED <<file, loaded, enriched_at, writes, net_log, ret, gained, raised_at,
                   arg, ret1, ret2>>

\* A driver whose handler lets the exception through.
HandleException_reraise ==
    /\ pc = "returned"
    /\ ret.raised
    /\ pc' = "aborted"
    /\ UNCHANGED <<file, templates, loaded, i, enriched_count, enriched_at, writes,
                   net_log, ret, gained, raised_at, arg, ret1, ret2>>

\* lines 234-236: the call raised; the error is printed and the loop goes on
HandleException ==
    /\ pc = "returned"
    /\ ret.raised
    /\ raised_at' = raised_at \cup {i + 1}
    /\ i' = i + 1
    /\ pc' = "loop"
    /\ UNCHANGED <<file, templates, loaded, enriched_count, enriched_at, writes,
                   net_log, ret, gained, arg, ret1, ret2>>

\* lines 238-247: stamp the document and write it over the catalog file
WriteBack ==
    /\ pc = "loop"
    /\ i = Len(templates)
    /\ enriched_at' = "this_run"
    /\ file' = [valid |-> TRUE, templates |-> templates, enriched_at |-> "this_run"]
    /\ writes' = writes + 1
    /\ pc' = "done"
    /\ UNCHANGED <<templates, loaded, i, enriched_count, net_log, ret, gained,
                   raised_at, arg, ret1, ret2>>

Next == Load \/ LoadFails \/ CallEnrich \/ Continue \/ HandleException \/ WriteBack

Spec == Init /\ [][Next]_vars

\* main is one sequential thread: whenever it has a next step, it takes it.
FairSpec == Spec /\ WF_vars(Next)

\* ------------------------------------------- fetch_dockerhub_info alone
\* SpecFetch: one registry lookup, over every kind of exchange.

StatsFields == {"description", "star_count", "pull_count", "last_updated"}

FieldValue(k) ==
    CASE k = "description" -> PyStr(<<"d">>)
      [] k = "star_count" -> PyInt(3)
      [] k = "pull_count" -> PyInt(1500)
      [] k = "last_updated" -> PyStr(<<"t">>)
      [] OTHER -> PyStr(<<"u">>)

\* JSON bodies: null, arrays, and objects holding any subset of the four
\* fields the lookup reads (or only a field it does not read).
FetchBodies ==
    {None, PyList(<< >>), PyList(<<PyInt(1)>>)}
    \cup {PyDict([k \in ks |-> FieldValue(k)]) : ks \in SUBSET StatsFields}
    \cup {PyDict([k \in {"user"} |-> FieldValue(k)])}

FetchResponses ==
    {Response(k, None) : k \in ErrorKinds} \cup {Response("ok", b) : b \in FetchBodies}

Repositories ==
    {<<S_library, S_nginx>>, <<S_linuxserver, S_heimdall>>,
     <<<<"f","o","o">>, <<"b","a","r">>>>}

InitFetch ==
    /\ pc = "fetch0"
    /\ arg \in [repo : Repositories, resp : FetchResponses]
    /\ ret1 = Idle /\ ret2 = Idle
    /\ file = Idle /\ templates = Idle /\ i = 0 /\ enriched_count = 0
    /\ enriched_at = Idle /\ writes = 0 /\ net_log = Idle /\ ret = Idle
    /\ loaded = Idle /\ gained = 0 /\ raised_at = {}

Fetch ==
    /\ pc = "fetch0"
    /\ ret1' = fetch_dockerhub_info(arg.repo[1], arg.repo[2], arg.resp)
    /\ pc' = "fetch1"
    /\ UNCHANGED <<arg, ret2, driver_vars>>

NextFetch == Fetch

SpecFetch == InitFetch /\ [][NextFetch]_vars

\* --------------------------------------------- extract_github_repo alone
\* SpecResolve: the resolver on descriptions assembled around a
\* github.com/owner/repo link, and on descriptions without one.

S_foo == <<"f","o","o">>
S_see == <<"s","e","e"," ">>
S_https == <<"h","t","t","p","s",":","/","/">>
S_pages == S_https \o S_foo \o S_github_io

LinkPrefixes == {<< >>, S_see, S_https, S_pages \o <<"p","g"," ">>}
LinkOwners == {S_foo, <<"a","-","b">>}
LinkRepos ==
    {<<"b","a","r">>, <<"c","o","n","f","i","g">>, <<"b","a","r",".","g","i","t">>,
     <<"w","i","d","g","e","t">>, <<"x",".","y">>}
LinkSuffixes == {<< >>, <<"/">>, <<" ","z">>, <<")">>}
ResolveImages == {S_nginx, S_linuxserver_heimdall, S_ghcr_image}

ResolveInputs ==
    {[has_url |-> TRUE, owner |-> o, repo |-> r, image |-> im,
      desc |-> pre \o S_github_com \o o \o <<"/">> \o r \o suf] :
        pre \in LinkPrefixes, o \in LinkOwners, r \in LinkRepos,
        suf \in LinkSuffixes, im \in ResolveImages}
    \cup {[has_url |-> FALSE, owner |-> << >>, repo |-> << >>, image |-> im, desc |-> d] :
             im \in ResolveImages, d \in {<< >>, <<"d">>, S_pages \o <<"b","a","r","/">>}}

InitResolve ==
    /\ pc = "resolve0"
    /\ arg \in ResolveInputs
    /\ ret1 = Idle /\ ret2 = Idle
    /\ file = Idle /\ templates = Idle /\ i = 0 /\ enriched_count = 0
    /\ enriched_at = Idle /\ writes = 0 /\ net_log = Idle /\ ret = Idle
    /\ loaded = Idle /\ gained = 0 /\ raised_at = {}

Resolve ==
    /\ pc = "resolve0"
    /\ ret1' = extract_github_repo(DockerFull(PyStr(arg.desc), PyInt(1500)), arg.image)
    /\ pc' = "resolve1"
    /\ UNCHANGED <<arg, ret2, driver_vars>>

NextResolve == Resolve

SpecResolve == InitResolve /\ [][NextResolve]_vars

\* ------------------------------------------------------------- properties

\* The sub-keys of an entry's metadata ({} when the entry has none).
MetadataKeys(template) ==
    IF "metadata" \in DOMAIN template THEN DOMAIN template["metadata"].v ELSE {}

\* The call issued a lookup of kind op.
Looked(outcome, op) == \E j \in 1..Len(outcome.log) : outcome.log[j].op = op

\* The exchange carried a non-empty JSON object, which is what a lookup
\* turns into stats.
CarriesData(resp) == resp.kind = "ok" /\ resp.body.t = "dict" /\ Truthy(resp.body)

\* C1: in the driver loop, an entry whose enrichment raised is left
\* unmodified: every field has the value it had when the catalog was loaded.
C1_RaisedEntryIsUnmodified ==
    \A k \in raised_at : templates[k] = loaded[k]

\* C2: the enriched count of the final summary equals the number of entries
\* that gained a metadata sub-mapping during this run.
C2_CountEqualsGained ==
    pc = "done" => enriched_count = gained

\* C3: after a call of enrich_template, whatever the entry held before, a
\* docker (github) sub-key is present in its metadata only if the registry
\* (source-repository) lookup was made and returned data in that call.
C3_SubKeyOnlyFromThisCall ==
    pc = "enrich1" =>
        /\ "docker" \in MetadataKeys(ret1.template) =>
               Looked(ret1, "dockerhub") /\ CarriesData(arg.dresp)
        /\ "github" \in MetadataKeys(ret1.template) =>
               Looked(ret1, "github") /\ CarriesData(arg.gresp)

\* The image reference is empty (or missing), names a known foreign registry,
\* or has a dot in the segment before its first "/".
Unresolvable(template) ==
    \/ "image" \notin DOMAIN template
    \/ template["image"].v = << >>
    \/ \E r \in {S_ghcr, S_gcr, S_quay, S_mcr, S_lscr} :
          \E a, b \in 0..Len(template["image"].v) :
             SubSeq(template["image"].v, a + 1, b) = r
    \/ \E a \in 1..Len(template["image"].v) :
          /\ template["image"].v[a] = "/"
          /\ \A q \in 1..(a - 1) : template["image"].v[q] # "/"
          /\ \E q \in 1..(a - 1) : template["image"].v[q] = "."

C5_RunWritesOnceAtTheEnd ==
    /\ [](writes <= 1)
    /\ [](writes = 1 => pc = "done" /\ i = Len(templates) /\ enriched_at = "this_run"
                        /\ file.enriched_at = "this_run" /\ file.templates = templates)
    /\ [](pc = "aborted" => writes = 0 /\ ~file.valid)
    /\ ((pc = "loop") ~> (pc = "done" /\ writes = 1))
    /\ ((pc = "start" /\ ~file.valid) ~> (pc = "aborted"))

\* C5 witness: the document was written although entries raised.
C5_Witness ==
    /\ pc = "done"
    /\ writes = 1
    /\ Len(templates) = 2
    /\ raised_at = {1, 2}

\* The registry lookup of the call returned Registry Stats.
RegistryReturnedStats == Looked(ret1, "dockerhub") /\ CarriesData(arg.dresp)

\* The namespace the image reference of the call parses to.
ArgNamespace ==
    IF "image" \in DOMAIN arg.template THEN parse_image_name(arg.template["image"].v)[1]
    ELSE None

\* C8: a call stores a github sub-key only if its registry lookup returned
\* stats or the namespace is linuxserver; with the registry absent and
\* another namespace, the source-repository lookup is not issued.
C8_GithubNeedsRegistryOrConvention ==
    pc = "enrich1" =>
        /\ (ret1.stored /\ "github" \in MetadataKeys(ret1.template)) =>
               (RegistryReturnedStats \/ ArgNamespace = PyStr(S_linuxserver))
        /\ (~RegistryReturnedStats /\ ArgNamespace # PyStr(S_linuxserver)) =>
               ~Looked(ret1, "github")

\* C8 witness: github stored through the naming convention alone.
C8_Witness ==
    /\ pc = "enrich1"
    /\ ret1.stored
    /\ MetadataKeys(ret1.template) = {"github"}
    /\ ~RegistryReturnedStats
    /\ ArgNamespace = PyStr(S_linuxserver)

\* C9: applying enrich_template twice, the network answering the same,
\* leaves the same metadata and the same description as applying it once.
C9_EnrichTwiceSameAsOnce ==
    pc = "enrich2" =>
        /\ Get(ret2.template, "metadata", None) = Get(ret1.template, "metadata", None)
        /\ Get(ret2.template, "description", None) = Get(ret1.template, "description", None)

\* C9 witness: the first call stored metadata and backfilled the
\* description of an entry that had one, empty.
C9_Witness ==
    /\ pc = "enrich2"
    /\ ret1.stored
    /\ Get(arg.template, "description", None) = PyStr(<< >>)
    /\ Get(ret1.template, "description", None) = PyStr(S_url_o_r)
    /\ "metadata" \in DOMAIN arg.template
    /\ MetadataKeys(ret2.template) = {"docker", "github"}

\* What the registry lookup is said to return for a JSON object: each field
\* of the object, or its empty/zero default.
StatsWithDefaults(repo, body) ==
    PyDict([description |-> IF "description" \in DOMAIN body THEN body["description"] ELSE PyStr(<< >>),
            star_count |-> IF "star_count" \in DOMAIN body THEN body["star_count"] ELSE PyInt(0),
            pull_count |-> IF "pull_count" \in DOMAIN body THEN body["pull_count"] ELSE PyInt(0),
            last_updated |-> IF "last_updated" \in DOMAIN body THEN body["last_updated"] ELSE PyStr(<< >>),
            is_official |-> PyBool(repo[1] = S_library),
            hub_url |-> PyStr(hub_url(repo[1], repo[2]))])

\* C6: fetch_dockerhub_info never raises, returns absent exactly on a network
\* failure, a timeout, a malformed body or not-found, and for a JSON object,
\* whichever fields it lacks, returns the stats with defaults filled in.
C6_AbsentExactlyOnFailure ==
    pc = "fetch1" =>
        /\ ~ret1.raised
        /\ ret1.value = None <=>
               arg.resp.kind \in {"urlerror", "timeout", "badjson", "badutf8", "http404"}
        /\ (arg.resp.kind = "ok" /\ arg.resp.body.t = "dict") =>
               ret1.value = StatsWithDefaults(arg.repo, arg.resp.body.v)

\* The repo segment less one trailing ".git" suffix and trailing slashes.
StripRepo_suffix(repo) ==
    LET n == Len(repo)
        cut == IF n >= 4 /\ SubSeq(repo, n - 3, n) = <<".", "g", "i", "t">>
               THEN SubSeq(repo, 1, n - 4) ELSE repo
    IN rstrip(cut, {"/"})

\* C7: for a description holding github.com/owner/repo, the resolver returns
\* owner and the repo segment less a trailing ".git" and a trailing slash,
\* otherwise character for character, before any other rule applies.
C7_RepoSegmentVerbatim ==
    (pc = "resolve1" /\ arg.has_url) =>
        ret1 = [raised |-> FALSE, value |-> PyTuple(arg.owner, StripRepo_suffix(arg.repo))]

\* Positions of the log that are network calls.
CallPositions == {j \in 1..Len(net_log) : net_log[j].ev.op \in {"dockerhub", "github"}}

\* The entries whose call of enrich_template has ended.
Processed == 1..(IF pc = "returned" THEN i + 1 ELSE i)

\* C10: entries are processed in catalog order; each resolvable entry gets
\* exactly one registry lookup and at most one source-repository lookup,
\* never before its registry lookup; every network call is followed by a
\* delay before the next network call.
C10_CallsAreSpacedAndOrdered ==
    (pc \in {"loop", "returned", "done"}) =>
        /\ \A j \in CallPositions :
              j < Len(net_log) /\ net_log[j + 1] = [entry |-> net_log[j].entry, ev |-> Sleep]
        /\ \A j \in 1..(Len(net_log) - 1) : net_log[j].entry <= net_log[j + 1].entry
        /\ \A k \in Processed :
              LET docker == {j \in CallPositions : net_log[j].entry = k /\ net_log[j].ev.op = "dockerhub"}
                  github == {j \in CallPositions : net_log[j].entry = k /\ net_log[j].ev.op = "github"}
              IN /\ Cardinality(docker) = (IF Unresolvable(loaded[k]) THEN 0 ELSE 1)
                 /\ Cardinality(github) <= 1
                 /\ \A g \in github : \E d \in docker : d < g

====
